---------------------------- MODULE Spec2Model ----------------------------
(***************************************************************************)
(* Model of supply_chain_dash.py: the cached CSV load with currency        *)
(* cleaning, the three sidebar filters, and the tables and numbers every   *)
(* script run derives from the filtered frame.                             *)
(*                                                                         *)
(* A script run is: df = load_data()  ->  the widgets return a selection   *)
(* and df_filtered is built  ->  every KPI / group-by / correlation /      *)
(* top-10 / radar / summary value is computed  ->  the user interacts and  *)
(* the script runs again from the top (st.cache_data survives the rerun).  *)
(*                                                                         *)
(* Floats are modelled as exact rationals [n, d] in lowest terms, with     *)
(* NaN = 0/0 and +-inf = +-1/0; rounding is not modelled.                  *)
(***************************************************************************)
EXTENDS Integers, Sequences, FiniteSets, TLC

VARIABLES file, cache, loads, first, df, sel, df_filtered, out, pc

vars == <<file, cache, loads, first, df, sel, df_filtered, out, pc>>

(***************************************************************************)
(* Bounds of the model.                                                    *)
(***************************************************************************)
\* rows of a CSV file whose category columns vary (filter family)
MaxRows == 2
\* rows of a CSV file whose group keys and a measure vary (group family)
MaxGroupRows == 2
\* rows of a CSV file whose numeric columns vary (numeric family)
MaxNumRows == 3
\* characters of a currency cell read as text (text family)
MaxText == 4

(***************************************************************************)
(* Float arithmetic (exact rationals with NaN and inf).                    *)
(***************************************************************************)
Abs(x) == IF x < 0 THEN -x ELSE x

RECURSIVE Gcd(_, _)
Gcd(a, b) == IF b = 0 THEN a ELSE Gcd(b, a % b)

Sign(x) == IF x < 0 THEN -1 ELSE IF x > 0 THEN 1 ELSE 0

\* the float n/d: lowest terms, positive denominator; x/0 is inf or NaN
Float(n, d) ==
    IF d = 0 THEN [n |-> Sign(n), d |-> 0]
    ELSE LET g == Gcd(Abs(n), Abs(d))
             s == IF d < 0 THEN -1 ELSE 1
         IN  [n |-> (s * n) \div g, d |-> (s * d) \div g]

NaN == [n |-> 0, d |-> 0]

isna(x) == x.n = 0 /\ x.d = 0

isfinite(x) == x.d # 0

\* a + b and a - b over the least common denominator
FAdd(a, b) == IF isna(a) \/ isna(b) THEN NaN
              ELSE IF a.d = 0 \/ b.d = 0 THEN Float(a.n * b.d + b.n * a.d, 0)
              ELSE LET g == Gcd(a.d, b.d)
                   IN  Float(a.n * (b.d \div g) + b.n * (a.d \div g), (a.d \div g) * b.d)

FSub(a, b) == FAdd(a, [n |-> -b.n, d |-> b.d])

\* a * b, reduced crosswise before multiplying
FMul(a, b) == IF isna(a) \/ isna(b) THEN NaN
              ELSE IF a.n = 0 \/ b.n = 0 \/ a.d = 0 \/ b.d = 0 THEN Float(a.n * b.n, a.d * b.d)
              ELSE LET g1 == Gcd(Abs(a.n), b.d)
                       g2 == Gcd(Abs(b.n), a.d)
                   IN  Float((a.n \div g1) * (b.n \div g2), (a.d \div g2) * (b.d \div g1))

\* numpy true division: x/0 gives inf or NaN (a warning, never an exception)
FDiv(a, b) == IF isna(a) \/ isna(b) THEN NaN
              ELSE IF b.n = 0 \/ b.d = 0 \/ a.d = 0 THEN Float(a.n * b.d, a.d * b.n)
              ELSE FMul(a, Float(b.d, b.n))

\* a < b for floats; every comparison with NaN is False
FLt(a, b) == /\ ~isna(a) /\ ~isna(b)
             /\ IF a.d = 0 /\ b.d = 0 THEN a.n < b.n
                ELSE a.n * b.d < b.n * a.d

FLe(a, b) == ~isna(a) /\ ~isna(b) /\ ~FLt(b, a)

\* the float of an integer
I(k) == Float(k, 1)

(***************************************************************************)
(* Columns of supply_chain_data.csv the script reads.                      *)
(***************************************************************************)
currency_cols == <<"Price", "Revenue generated", "Shipping costs",
                   "Manufacturing costs", "Costs">>

numeric_cols == <<"Price", "Availability", "Number of products sold",
                  "Revenue generated", "Stock levels", "Lead times",
                  "Order quantities", "Shipping times", "Production volumes",
                  "Manufacturing lead time", "Defect rates">>

radar_cols == <<"Price", "Stock levels", "Lead times", "Defect rates",
                "Shipping times">>

CategoryColumns == {"Product Type", "Location", "Transportation modes", "Routes",
                    "Shipping carriers", "Supplier name", "Customer demographics",
                    "Inspection results"}

Range(s) == {s[i] : i \in 1..Len(s)}

NumericColumns == Range(numeric_cols) \cup Range(currency_cols)

Columns == CategoryColumns \cup NumericColumns

\* a missing category cell: read_csv stores NaN
NA == "<NA>"

(***************************************************************************)
(* The CSV file as pd.read_csv returns it.  A category cell is a string    *)
(* (NA when missing); a numeric cell is a float (NaN when missing); a cell *)
(* of a currency column that read_csv could not read as a number stays a   *)
(* str, modelled as the sequence of its characters.                        *)
(***************************************************************************)
Str(s) == [kind |-> "str", s |-> s, v |-> NaN]

Num(v) == [kind |-> "float", s |-> <<>>, v |-> v]

BaseRow ==
    [c \in Columns |->
        IF c \in Range(currency_cols) THEN Num(I(1))
        ELSE IF c \in NumericColumns THEN I(1)
        ELSE IF c = "Product Type" THEN "skincare"
        ELSE IF c = "Location" THEN "Mumbai"
        ELSE IF c = "Transportation modes" THEN "Air"
        ELSE IF c = "Routes" THEN "Route A"
        ELSE IF c = "Shipping carriers" THEN "Carrier A"
        ELSE IF c = "Supplier name" THEN "Supplier 1"
        ELSE IF c = "Customer demographics" THEN "Female"
        ELSE "Pass"]

SeqsUpTo(S, n) == UNION {[1..k -> S] : k \in 0..n}

\* the values of the three filter columns
ProductTypes == {"skincare", "haircare"}
Locations == {"Mumbai", "Delhi"}
TransportModes == {"Air", "Road"}

\* files whose rows differ in the three filter columns
FilterFamily ==
    SeqsUpTo({[BaseRow EXCEPT !["Product Type"] = p, !["Location"] = l,
                              !["Transportation modes"] = t] :
                 p \in ProductTypes, l \in Locations, t \in TransportModes},
             MaxRows)

\* files whose rows differ in Product Type only (used with a file that changes)
SmallFamily ==
    SeqsUpTo({[BaseRow EXCEPT !["Product Type"] = p] : p \in ProductTypes}, MaxRows)

\* files whose rows differ in the group keys (missing keys included) and in
\* the summed measures (missing values included)
GroupFamily ==
    SeqsUpTo({[BaseRow EXCEPT
                  !["Product Type"] = a[1],
                  !["Customer demographics"] = a[2],
                  !["Supplier name"] = a[3],
                  !["Location"] = b[1],
                  !["Routes"] = b[2],
                  !["Revenue generated"] = Num(m),
                  !["Price"] = Num(m),
                  !["Shipping costs"] = Num(m),
                  !["Number of products sold"] = m] :
                 a \in {<<"skincare", "Female", "Supplier 1">>,
                        <<"haircare", "Male", "Supplier 2">>,
                        <<NA, NA, NA>>},
                 b \in {<<"Mumbai", "Route A">>, <<NA, NA>>},
                 m \in {I(1), I(3), NaN}},
             MaxGroupRows)

\* files whose rows differ in two numeric columns (missing revenue included)
NumFamily ==
    SeqsUpTo({[BaseRow EXCEPT !["Revenue generated"] = Num(r),
                              !["Lead times"] = x] :
                 r \in {I(1), I(2), NaN}, x \in {I(1), I(2)}},
             MaxNumRows)

\* the characters of a currency cell
Alphabet == {"$", ",", ".", "1", "n", "a"}

\* read_csv's default na_values: a cell spelled so is read as NaN, not as str
NaTokens == {<<>>, <<"n", "a", "n">>}

Texts == UNION {[1..k -> Alphabet] : k \in 1..MaxText} \ NaTokens

\* one-row files with one currency cell read as text
TextFamily ==
    {<<[BaseRow EXCEPT ![c] = Str(t)]>> : c \in Range(currency_cols), t \in Texts}

(***************************************************************************)
(* load_data: clean_currency applied to the five currency columns.         *)
(***************************************************************************)
\* str.replace(ch, ''): every occurrence of ch removed
RECURSIVE str_replace(_, _)
str_replace(s, ch) ==
    IF s = <<>> THEN <<>>
    ELSE IF Head(s) = ch THEN str_replace(Tail(s), ch)
    ELSE <<Head(s)>> \o str_replace(Tail(s), ch)

Digits == {"0", "1", "2", "3", "4", "5", "6", "7", "8", "9"}

DigitVal(ch) == CASE ch = "0" -> 0 [] ch = "1" -> 1 [] ch = "2" -> 2 [] ch = "3" -> 3
                  [] ch = "4" -> 4 [] ch = "5" -> 5 [] ch = "6" -> 6 [] ch = "7" -> 7
                  [] ch = "8" -> 8 [] ch = "9" -> 9

RECURSIVE Pow10(_)
Pow10(k) == IF k = 0 THEN 1 ELSE 10 * Pow10(k - 1)

\* the integer a string of digits spells ("" spells 0)
RECURSIVE DigitsVal(_)
DigitsVal(s) == IF s = <<>> THEN 0
                ELSE DigitsVal(SubSeq(s, 1, Len(s) - 1)) * 10 + DigitVal(s[Len(s)])

\* Python's float(str) on lower-case text without sign, exponent, underscore
\* or blanks: digits with at most one '.', and the words nan, inf, infinity;
\* anything else raises ValueError
python_float(s) ==
    LET dots == {i \in 1..Len(s) : s[i] = "."}
        rest == {i \in 1..Len(s) : s[i] \notin Digits \cup {"."}}
        dot  == IF dots = {} THEN Len(s) + 1 ELSE CHOOSE i \in dots : TRUE
        ip   == SubSeq(s, 1, dot - 1)
        fp   == SubSeq(s, dot + 1, Len(s))
    IN  IF s = <<"n", "a", "n">> THEN [raised |-> FALSE, v |-> NaN]
        ELSE IF s \in {<<"i", "n", "f">>, <<"i", "n", "f", "i", "n", "i", "t", "y">>}
             THEN [raised |-> FALSE, v |-> Float(1, 0)]
        ELSE IF rest # {} \/ Cardinality(dots) > 1 \/ Len(ip) + Len(fp) = 0
             THEN [raised |-> TRUE, v |-> NaN]
        ELSE [raised |-> FALSE,
              v |-> Float(DigitsVal(ip) * Pow10(Len(fp)) + DigitsVal(fp), Pow10(Len(fp)))]

clean_currency(value) ==
    IF value.kind = "str"
    THEN python_float(str_replace(str_replace(value.s, "$"), ","))
    ELSE [raised |-> FALSE, v |-> value.v]

\* the body of load_data: the frame, or the exception of the first bad cell
load_data(f) ==
    LET cleaned(i, c) == clean_currency(f[i][c])
    IN  [raised |-> \E i \in 1..Len(f) : \E c \in Range(currency_cols) : cleaned(i, c).raised,
         df |-> [i \in 1..Len(f) |->
                   [c \in Columns \cup {"index"} |->
                      IF c = "index" THEN i - 1
                      ELSE IF c \in Range(currency_cols) THEN cleaned(i, c).v
                      ELSE f[i][c]]]]

NoCache == [hit |-> FALSE, value |-> <<>>]

\* fault variant of cached_load_data: no @st.cache_data, the body runs each time
load_data_every_run(c, f) ==
    LET r == load_data(f)
    IN  IF r.raised THEN [raised |-> TRUE, df |-> <<>>, cache |-> c, ran |-> TRUE]
        ELSE [raised |-> FALSE, df |-> r.df,
              cache |-> [hit |-> TRUE, value |-> r.df], ran |-> TRUE]

\* @st.cache_data: the body runs on a miss only, and only a result is stored
cached_load_data(c, f) ==
    IF c.hit THEN [raised |-> FALSE, df |-> c.value, cache |-> c, ran |-> FALSE]
    ELSE LET r == load_data(f)
         IN  IF r.raised THEN [raised |-> TRUE, df |-> <<>>, cache |-> c, ran |-> TRUE]
             ELSE [raised |-> FALSE, df |-> r.df,
                   cache |-> [hit |-> TRUE, value |-> r.df], ran |-> TRUE]

(***************************************************************************)
(* The pandas operations the script calls, on a frame (a sequence of rows, *)
(* each a function of the column names and "index").                       *)
(***************************************************************************)
\* Series.unique(): the distinct values, a missing one included
unique(fr, col) == {fr[i][col] : i \in 1..Len(fr)}

\* fault variant of isin: a missing value compared with ==, which never matches
isin_by_equality(v, values) == v # NA /\ v \in values

\* Series.isin(values): membership; a missing value matches a missing value
isin(v, values) == v \in values

\* fault variant of boolean_mask: the last two masks joined with | instead of &
boolean_mask_or(fr, s) ==
    SelectSeq(fr, LAMBDA r : /\ isin(r["Product Type"], s.product_type)
                             /\ \/ isin(r["Location"], s.location)
                                \/ isin(r["Transportation modes"], s.transport))

\* df[m1 & m2 & m3]: the rows whose three masks are all True, in frame order
boolean_mask(fr, s) ==
    SelectSeq(fr, LAMBDA r : /\ isin(r["Product Type"], s.product_type)
                             /\ isin(r["Location"], s.location)
                             /\ isin(r["Transportation modes"], s.transport))

\* the default of the three multiselects: every observed value
default_selection(fr) ==
    [product_type |-> unique(fr, "Product Type"),
     location     |-> unique(fr, "Location"),
     transport    |-> unique(fr, "Transportation modes")]

\* the non-missing values of a column, in frame order
RECURSIVE dropna(_, _)
dropna(fr, col) ==
    IF fr = <<>> THEN <<>>
    ELSE (IF isna(Head(fr)[col]) THEN <<>> ELSE <<Head(fr)[col]>>) \o dropna(Tail(fr), col)

RECURSIVE FSum(_)
FSum(xs) == IF xs = <<>> THEN I(0) ELSE FAdd(Head(xs), FSum(Tail(xs)))

\* Series.sum(): missing values skipped, 0 for no values
Series_sum(fr, col) == FSum(dropna(fr, col))

\* Series.count(): the number of non-missing values
Series_count(fr, col) == Len(dropna(fr, col))

\* Series.mean(): missing values skipped, NaN for no values
Series_mean(fr, col) == FDiv(Series_sum(fr, col), I(Series_count(fr, col)))

\* Series.max() / Series.min(): missing values skipped, NaN for no values
Series_max(fr, col) ==
    LET xs == Range(dropna(fr, col))
    IN  IF xs = {} THEN NaN ELSE CHOOSE x \in xs : \A y \in xs : FLe(y, x)

Series_min(fr, col) ==
    LET xs == Range(dropna(fr, col))
    IN  IF xs = {} THEN NaN ELSE CHOOSE x \in xs : \A y \in xs : FLe(x, y)

\* the key of a row under a list of key columns
row_key(r, keys) == [j \in 1..Len(keys) |-> r[keys[j]]]

\* fault variant of group_keys: dropna=False, a missing key is a group
group_keys_keepna(fr, keys) == {row_key(fr[i], keys) : i \in 1..Len(fr)}

\* fault variant of group_keys: observed=False on categoricals, every
\* combination of the observed key values is a group
group_keys_product(fr, keys) ==
    {k \in [1..Len(keys) -> UNION {unique(fr, keys[j]) : j \in 1..Len(keys)}] :
        \A j \in 1..Len(keys) : k[j] # NA /\ k[j] \in unique(fr, keys[j])}

\* groupby(keys) with the default dropna=True: the keys of the rows none of
\* whose key cells is missing
group_keys(fr, keys) ==
    {row_key(fr[i], keys) : i \in {i \in 1..Len(fr) : \A j \in 1..Len(keys) : fr[i][keys[j]] # NA}}

\* the rows of one group, in frame order
get_group(fr, keys, k) == SelectSeq(fr, LAMBDA r : row_key(r, keys) = k)

\* groupby(keys)[col].sum()
groupby_sum(fr, keys, col) ==
    [k \in group_keys(fr, keys) |-> Series_sum(get_group(fr, keys, k), col)]

\* groupby(keys)[col].mean()
groupby_mean(fr, keys, col) ==
    [k \in group_keys(fr, keys) |-> Series_mean(get_group(fr, keys, k), col)]

\* Series.value_counts(): the count of each non-missing value
value_counts(fr, col) ==
    [v \in unique(fr, col) \ {NA} |-> Cardinality({i \in 1..Len(fr) : fr[i][col] = v})]

\* a row put into rows already sorted descending by col, behind its equals
RECURSIVE insert_desc(_, _, _)
insert_desc(sorted, r, col) ==
    IF sorted = <<>> THEN <<r>>
    ELSE IF FLt(Head(sorted)[col], r[col]) THEN <<r>> \o sorted
    ELSE <<Head(sorted)>> \o insert_desc(Tail(sorted), r, col)

\* the stable descending sort of rows by col (no missing values in col)
RECURSIVE sort_desc(_, _)
sort_desc(fr, col) ==
    IF fr = <<>> THEN <<>>
    ELSE insert_desc(sort_desc(SubSeq(fr, 1, Len(fr) - 1), col), fr[Len(fr)], col)

\* DataFrame.nlargest(n, col), keep='first': the rows with a value sorted
\* descending (equal values in frame order) followed by the rows whose value
\* is missing, cut to n rows
nlargest(fr, n, col) ==
    LET valued  == SelectSeq(fr, LAMBDA r : ~isna(r[col]))
        missing == SelectSeq(fr, LAMBDA r : isna(r[col]))
        ranked  == sort_desc(valued, col) \o missing
    IN  IF n <= 0 THEN <<>> ELSE SubSeq(ranked, 1, IF n < Len(ranked) THEN n ELSE Len(ranked))

\* the number of rows nlargest is asked for
TopN == 10

\* a correlation r kept exact as its sign and its square
Corr(sgn, q) == [sgn |-> sgn, q |-> q]

CorrNaN == Corr(0, NaN)

CorrOne == Corr(1, I(1))

\* fault variant of corr_cell: the covariance (divisor nobs - 1) is returned
corr_cell_cov(fr, x, y) ==
    LET both == SelectSeq(fr, LAMBDA r : ~isna(r[x]) /\ ~isna(r[y]))
        nobs == I(Len(both))
        sx   == FSum([i \in 1..Len(both) |-> both[i][x]])
        sy   == FSum([i \in 1..Len(both) |-> both[i][y]])
        sxy  == FSum([i \in 1..Len(both) |-> FMul(both[i][x], both[i][y])])
        cov  == FDiv(FSub(FMul(nobs, sxy), FMul(sx, sy)), FMul(nobs, I(Len(both) - 1)))
    IN  IF Len(both) < 1 \/ Len(both) = 1 THEN CorrNaN
        ELSE Corr(Sign(cov.n), FMul(cov, cov))

\* one cell of DataFrame.corr() (Pearson, min_periods=1): over the rows where
\* both columns have a value; NaN when there is no such row or when the
\* divisor sqrt(ssqdm_x * ssqdm_y) is 0.  A sum of squared deviations is 0
\* exactly when the values are all equal, which is tested first.
corr_cell(fr, x, y) ==
    LET both == SelectSeq(fr, LAMBDA r : ~isna(r[x]) /\ ~isna(r[y]))
        flat(c) == \A i \in 1..Len(both) : both[i][c] = both[1][c]
        nobs == I(Len(both))
        sx   == FSum([i \in 1..Len(both) |-> both[i][x]])
        sy   == FSum([i \in 1..Len(both) |-> both[i][y]])
        sxx  == FSum([i \in 1..Len(both) |-> FMul(both[i][x], both[i][x])])
        syy  == FSum([i \in 1..Len(both) |-> FMul(both[i][y], both[i][y])])
        sxy  == FSum([i \in 1..Len(both) |-> FMul(both[i][x], both[i][y])])
        ssx  == FSub(FMul(nobs, sxx), FMul(sx, sx))
        ssy  == FSub(FMul(nobs, syy), FMul(sy, sy))
        cov  == FSub(FMul(nobs, sxy), FMul(sx, sy))
    IN  IF Len(both) < 1 \/ flat(x) \/ flat(y) \/ ssx.n = 0 \/ ssy.n = 0 THEN CorrNaN
        ELSE Corr(Sign(cov.n), FDiv(FMul(cov, cov), FMul(ssx, ssy)))

\* DataFrame.corr(): each cell is computed once for xi >= yi and stored at
\* [xi, yi] and [yi, xi]
corr(fr, cols) ==
    LET K     == 1..Len(cols)
        lower == [p \in {q \in K \X K : q[1] >= q[2]} |->
                     corr_cell(fr, cols[p[1]], cols[p[2]])]
    IN  [p \in K \X K |-> IF p[1] >= p[2] THEN lower[p] ELSE lower[<<p[2], p[1]>>]]

\* groupby('Product Type').agg({five columns: 'mean'})
metrics_by_product_means(fr) ==
    [k \in group_keys(fr, <<"Product Type">>) |->
        [c \in Range(radar_cols) |-> Series_mean(get_group(fr, <<"Product Type">>, k), c)]]

\* the column's skipna min / max over the groups
column_min(m, c) ==
    LET xs == {m[k][c] : k \in DOMAIN m} \ {NaN}
    IN  IF xs = {} THEN NaN ELSE CHOOSE x \in xs : \A y \in xs : FLe(x, y)

column_max(m, c) ==
    LET xs == {m[k][c] : k \in DOMAIN m} \ {NaN}
    IN  IF xs = {} THEN NaN ELSE CHOOSE x \in xs : \A y \in xs : FLe(y, x)

\* (col - col.min()) / (col.max() - col.min()) * 100, for each radar column
normalize(m) ==
    [k \in DOMAIN m |->
        [c \in Range(radar_cols) |->
            FMul(FDiv(FSub(m[k][c], column_min(m, c)),
                      FSub(column_max(m, c), column_min(m, c))),
                 I(100))]]

\* fault variant of true_divide: Python int / int, ZeroDivisionError on 0
python_true_divide(a, b) == [raised |-> b.n = 0, v |-> FDiv(a, b)]

\* numpy.int64 / int: a float, nan or inf when the divisor is 0; no exception
true_divide(a, b) == [raised |-> FALSE, v |-> FDiv(a, b)]

\* (df_filtered['Inspection results'] == result).sum() / len(df_filtered) * 100
inspection_rate(fr, result) ==
    LET hits == Cardinality({i \in 1..Len(fr) : fr[i]["Inspection results"] = result})
        q    == true_divide(I(hits), I(Len(fr)))
    IN  [raised |-> q.raised, v |-> FMul(q.v, I(100))]

(***************************************************************************)
(* Everything one script run computes from df_filtered, under the names    *)
(* the script gives.  A table is a function of its keys; the order         *)
(* sort_values gives a table for display is not modelled.                  *)
(***************************************************************************)
Outputs(fr) ==
    LET pass == inspection_rate(fr, "Pass")
        fail == inspection_rate(fr, "Fail")
    IN  [computed             |-> TRUE,
         raised               |-> pass.raised \/ fail.raised,
         total_revenue        |-> Series_sum(fr, "Revenue generated"),
         total_products_sold  |-> Series_sum(fr, "Number of products sold"),
         avg_defect_rate      |-> Series_mean(fr, "Defect rates"),
         avg_lead_time        |-> Series_mean(fr, "Lead times"),
         total_shipping_cost  |-> Series_sum(fr, "Shipping costs"),
         revenue_by_product   |-> groupby_sum(fr, <<"Product Type">>, "Revenue generated"),
         products_by_location |-> groupby_sum(fr, <<"Location">>, "Number of products sold"),
         transport_dist       |-> value_counts(fr, "Transportation modes"),
         shipping_by_route    |-> groupby_sum(fr, <<"Routes">>, "Shipping costs"),
         avg_shipping_time    |-> groupby_mean(fr, <<"Shipping carriers">>, "Shipping times"),
         production_location  |-> groupby_sum(fr, <<"Location", "Product Type">>,
                                              "Production volumes"),
         inspection_counts    |-> value_counts(fr, "Inspection results"),
         top_products         |-> nlargest(fr, TopN, "Revenue generated"),
         costs_by_transport   |->
             [k \in group_keys(fr, <<"Transportation modes", "Routes">>) |->
                 [c \in {"Costs", "Shipping costs"} |->
                     Series_sum(get_group(fr, <<"Transportation modes", "Routes">>, k), c)]],
         cost_data            |-> <<Series_sum(fr, "Manufacturing costs"),
                                    Series_sum(fr, "Shipping costs"),
                                    Series_sum(fr, "Costs")>>,
         correlation_matrix   |-> corr(fr, numeric_cols),
         metrics_by_product   |-> normalize(metrics_by_product_means(fr)),
         supplier_metrics     |->
             [k \in group_keys(fr, <<"Supplier name">>) |->
                 [c \in {"Revenue generated", "Defect rates", "Number of products sold"} |->
                     IF c = "Defect rates"
                     THEN Series_mean(get_group(fr, <<"Supplier name">>, k), c)
                     ELSE Series_sum(get_group(fr, <<"Supplier name">>, k), c)]],
         demographics_dist    |-> value_counts(fr, "Customer demographics"),
         revenue_demographics |-> groupby_sum(fr, <<"Customer demographics">>,
                                              "Revenue generated"),
         average_revenue      |-> Series_mean(fr, "Revenue generated"),
         max_revenue          |-> Series_max(fr, "Revenue generated"),
         pass_rate            |-> pass.v,
         fail_rate            |-> fail.v,
         total_stock          |-> Series_sum(fr, "Stock levels")]

\* a run that has not reached a statement yet holds nothing under its name
NoSelection == [product_type |-> {}, location |-> {}, transport |-> {}]

NoOutputs == [computed |-> FALSE]

\* what the three multiselects can return; a value that no row of the frame
\* holds stands for a stale selection
Selections ==
    [product_type : SUBSET ProductTypes, location : SUBSET Locations,
     transport : SUBSET TransportModes]

(***************************************************************************)
(* The steps of a script run.                                              *)
(***************************************************************************)
\* df = load_data()   (an exception in load_data ends the run)
LoadData ==
    /\ pc = "start"
    /\ LET r == cached_load_data(cache, file)
           stored == r.ran /\ ~r.raised
       IN  /\ cache' = r.cache
           /\ loads' = IF stored THEN loads + 1 ELSE loads
           /\ first' = IF stored /\ loads = 0 THEN r.df ELSE first
           /\ df' = r.df
           /\ pc' = IF r.raised THEN "error" ELSE "loaded"
    /\ UNCHANGED <<file, sel, df_filtered, out>>

\* the three multiselects return s, and df_filtered = df[...]
FilterData(s) ==
    /\ pc = "loaded"
    /\ sel' = s
    /\ df_filtered' = boolean_mask(df, s)
    /\ pc' = "filtered"
    /\ UNCHANGED <<file, cache, loads, first, df, out>>

\* the multiselects return their default
FilterDefault == FilterData(default_selection(df))

\* everything from the KPI row to the summary statistics
Recompute ==
    /\ pc = "filtered"
    /\ out' = Outputs(df_filtered)
    /\ pc' = IF out'.raised THEN "error" ELSE "done"
    /\ UNCHANGED <<file, cache, loads, first, df, sel, df_filtered>>

\* the user changes a widget (or reloads the page): the script runs again
\* from the top; only the st.cache_data store survives
Interact ==
    /\ pc \in {"done", "error"}
    /\ pc' = "start"
    /\ df' = <<>>
    /\ sel' = NoSelection
    /\ df_filtered' = <<>>
    /\ out' = NoOutputs
    /\ UNCHANGED <<file, cache, loads, first>>

\* supply_chain_data.csv is rewritten on disk while the app is up
FileEdited ==
    /\ file' \in SmallFamily \ {file}
    /\ UNCHANGED <<cache, loads, first, df, sel, df_filtered, out, pc>>

InitWith(files) ==
    /\ file \in files
    /\ cache = NoCache
    /\ loads = 0
    /\ first = <<>>
    /\ df = <<>>
    /\ sel = NoSelection
    /\ df_filtered = <<>>
    /\ out = NoOutputs
    /\ pc = "start"

Next == LoadData \/ (\E s \in Selections : FilterData(s)) \/ Recompute \/ Interact

NextDefault == LoadData \/ FilterDefault \/ Recompute \/ Interact

NextEdited == LoadData \/ (\E s \in Selections : FilterData(s)) \/ Recompute \/ Interact
                \/ FileEdited

\* any filter selection over files that differ in the filter columns
Init == InitWith(FilterFamily)
Spec == Init /\ [][Next]_vars

\* any filter selection, and a file that changes on disk
InitCache == InitWith(SmallFamily)
SpecCache == InitCache /\ [][NextEdited]_vars

\* the default selection over files with missing group keys and measures
InitGroup == InitWith(GroupFamily)
SpecGroup == InitGroup /\ [][NextDefault]_vars

\* the default selection over files that differ in two numeric columns
InitNum == InitWith(NumFamily)
SpecNum == InitNum /\ [][NextDefault]_vars

\* the default selection over files with a currency cell read as text
InitText == InitWith(TextFamily)
SpecText == InitText /\ [][NextDefault]_vars

(***************************************************************************)
(* Properties.                                                             *)
(***************************************************************************)
Ran == pc \in {"filtered", "done"}

\* the positions of the rows of df the selection keeps
Kept == {i \in 1..Len(df) : /\ df[i]["Product Type"] \in sel.product_type
                            /\ df[i]["Location"] \in sel.location
                            /\ df[i]["Transportation modes"] \in sel.transport}

\* C1: for any three selection sets, values no row holds included, the
\* filter step ends without error in exactly the rows of df whose Product
\* Type, Location and Transportation modes are all selected, each once and
\* in df's order; a selected value no row holds matches nothing.
C1_FilterExact ==
    /\ pc # "error"
    /\ Ran => /\ Len(df_filtered) = Cardinality(Kept)
              /\ \A k \in 1..Len(df_filtered) :
                    /\ df_filtered[k]["index"] + 1 \in Kept
                    /\ df_filtered[k] = df[df_filtered[k]["index"] + 1]
              /\ \A k \in 1..(Len(df_filtered) - 1) :
                    df_filtered[k]["index"] < df_filtered[k + 1]["index"]

\* C1 witness: a selection with a value no row holds has kept some rows of
\* df and dropped others
C1_Witness ==
    /\ pc = "filtered"
    /\ \E v \in sel.product_type : v \notin unique(df, "Product Type")
    /\ 0 < Len(df_filtered) /\ Len(df_filtered) < Len(df)

\* C2: with each selection equal to the distinct values of its column (the
\* default), the filter step returns df itself: no row dropped, duplicated
\* or moved.
C2_DefaultKeepsAll ==
    (Ran /\ sel = default_selection(df)) => df_filtered = df

\* C2 witness: the default selection was applied to a frame of two different
\* rows, one of them without a Product Type
C2_Witness ==
    /\ pc = "filtered"
    /\ sel = default_selection(df)
    /\ Len(df) = 2 /\ df[1] # df[2]
    /\ \E i \in 1..Len(df) : df[i]["Product Type"] = NA

EmptySelection ==
    sel.product_type = {} \/ sel.location = {} \/ sel.transport = {}

IsEmptyOrNaN(x) == x = <<>> \/ x = NaN

\* the results of a run that are tables, vectors or means
EmptyViewResults ==
    /\ ~out.raised
    /\ out.avg_defect_rate = NaN /\ out.avg_lead_time = NaN
    /\ out.average_revenue = NaN /\ out.max_revenue = NaN
    /\ out.revenue_by_product = <<>> /\ out.products_by_location = <<>>
    /\ out.shipping_by_route = <<>> /\ out.avg_shipping_time = <<>>
    /\ out.production_location = <<>> /\ out.costs_by_transport = <<>>
    /\ out.metrics_by_product = <<>> /\ out.supplier_metrics = <<>>
    /\ out.revenue_demographics = <<>>
    /\ out.transport_dist = <<>> /\ out.inspection_counts = <<>>
    /\ out.demographics_dist = <<>>
    /\ \A p \in DOMAIN out.correlation_matrix : out.correlation_matrix[p] = CorrNaN
    /\ out.top_products = <<>>
    /\ out.pass_rate = NaN /\ out.fail_rate = NaN

\* the sums of a run
Totals == <<out.total_revenue, out.total_products_sold, out.total_shipping_cost,
            out.cost_data[1], out.cost_data[2], out.cost_data[3], out.total_stock>>

\* C3 (amended): when a selection set is empty the view is empty and the run
\* ends without raising; every mean, the maximum and the Pass and Fail rates
\* are NaN, every group-by table, count table and the top-10 are empty, every
\* cell of the correlation matrix is NaN, and every sum is 0.
C3_EmptySelection ==
    /\ pc # "error"
    /\ (Ran /\ EmptySelection) => df_filtered = <<>>
    /\ (pc = "done" /\ EmptySelection) =>
          /\ EmptyViewResults
          /\ \A j \in 1..Len(Totals) : Totals[j] = I(0)

\* C3 as stated: every result on the empty view, the sums included, is empty
\* or NaN.
C3_AsStated ==
    /\ pc # "error"
    /\ (Ran /\ EmptySelection) => df_filtered = <<>>
    /\ (pc = "done" /\ EmptySelection) =>
          /\ EmptyViewResults
          /\ \A j \in 1..Len(Totals) : IsEmptyOrNaN(Totals[j])

\* C3 witness: a run over a frame with rows ended with nothing selected in
\* one filter
C3_Witness ==
    /\ pc = "done"
    /\ sel.location = {} /\ sel.product_type # {} /\ sel.transport # {}
    /\ Len(df) > 0

\* the sum of the values of a table over a set of its keys
RECURSIVE SumOver(_, _)
SumOver(t, ks) ==
    IF ks = {} THEN I(0)
    ELSE LET k == CHOOSE k \in ks : TRUE IN FAdd(t[k], SumOver(t, ks \ {k}))

TableSum(t) == SumOver(t, DOMAIN t)

\* a table of rows reduced to one of its columns
TableColumn(t, c) == [k \in DOMAIN t |-> t[k][c]]

\* the sum of a measure over the rows of the view that have a value in key
KeyedTotal(key, col) ==
    Series_sum(SelectSeq(df_filtered, LAMBDA r : r[key] # NA), col)

\* C4 (amended): for each grouping column (Product Type, Location, Routes,
\* Customer demographics, Supplier name) the per-group sums of a measure add
\* up to the sum of that measure over the rows of the view that have a value
\* in the grouping column; it is the ungrouped total when no row lacks one.
C4_GroupSumsCoverKeyedRows ==
    pc = "done" =>
       /\ TableSum(out.revenue_by_product) = KeyedTotal("Product Type", "Revenue generated")
       /\ TableSum(out.products_by_location) = KeyedTotal("Location", "Number of products sold")
       /\ TableSum(out.shipping_by_route) = KeyedTotal("Routes", "Shipping costs")
       /\ TableSum(out.revenue_demographics)
             = KeyedTotal("Customer demographics", "Revenue generated")
       /\ TableSum(TableColumn(out.supplier_metrics, "Revenue generated"))
             = KeyedTotal("Supplier name", "Revenue generated")
       /\ TableSum(TableColumn(out.supplier_metrics, "Number of products sold"))
             = KeyedTotal("Supplier name", "Number of products sold")
       /\ (\A i \in 1..Len(df_filtered) : df_filtered[i]["Product Type"] # NA)
             => TableSum(out.revenue_by_product) = out.total_revenue

\* C4 as stated: for every view and each grouping column, the per-group sums
\* of a measure add up to the ungrouped total of the measure over the view.
C4_AsStated ==
    pc = "done" =>
       /\ TableSum(out.revenue_by_product) = out.total_revenue
       /\ TableSum(out.products_by_location) = out.total_products_sold
       /\ TableSum(out.shipping_by_route) = out.total_shipping_cost
       /\ TableSum(out.revenue_demographics) = out.total_revenue
       /\ TableSum(TableColumn(out.supplier_metrics, "Revenue generated")) = out.total_revenue
       /\ TableSum(TableColumn(out.supplier_metrics, "Number of products sold"))
             = out.total_products_sold

\* C4 witness: a view of two rows with revenue, one of them without a
\* Product Type, was grouped
C4_Witness ==
    /\ pc = "done"
    /\ Len(df_filtered) = 2
    /\ df_filtered[1]["Product Type"] = NA /\ df_filtered[2]["Product Type"] # NA
    /\ \A i \in 1..2 : ~isna(df_filtered[i]["Revenue generated"])
    /\ DOMAIN out.revenue_by_product # {}

\* the key combinations, none of them missing, that rows of the view hold
Observed1(c) ==
    {<<df_filtered[i][c]>> : i \in {i \in 1..Len(df_filtered) : df_filtered[i][c] # NA}}

Observed2(c1, c2) ==
    {<<df_filtered[i][c1], df_filtered[i][c2]>> :
        i \in {i \in 1..Len(df_filtered) : df_filtered[i][c1] # NA /\ df_filtered[i][c2] # NA}}

\* every key combination that rows of the view hold, a missing key included
Occurring1(c) == {<<df_filtered[i][c]>> : i \in 1..Len(df_filtered)}

Occurring2(c1, c2) ==
    {<<df_filtered[i][c1], df_filtered[i][c2]>> : i \in 1..Len(df_filtered)}

\* C9 (amended): the key set of every group-by table, the two-key ones
\* included, is exactly the set of key combinations held by rows of the view
\* in which no key is missing: no other combination appears and none of
\* these is absent.
C9_GroupKeysObserved ==
    pc = "done" =>
       /\ DOMAIN out.revenue_by_product = Observed1("Product Type")
       /\ DOMAIN out.products_by_location = Observed1("Location")
       /\ DOMAIN out.shipping_by_route = Observed1("Routes")
       /\ DOMAIN out.avg_shipping_time = Observed1("Shipping carriers")
       /\ DOMAIN out.production_location = Observed2("Location", "Product Type")
       /\ DOMAIN out.costs_by_transport = Observed2("Transportation modes", "Routes")
       /\ DOMAIN out.metrics_by_product = Observed1("Product Type")
       /\ DOMAIN out.supplier_metrics = Observed1("Supplier name")
       /\ DOMAIN out.revenue_demographics = Observed1("Customer demographics")

\* C9 as stated: the key set of every group-by table is exactly the set of
\* key combinations that occur in rows of the view.
C9_AsStated ==
    pc = "done" =>
       /\ DOMAIN out.revenue_by_product = Occurring1("Product Type")
       /\ DOMAIN out.products_by_location = Occurring1("Location")
       /\ DOMAIN out.shipping_by_route = Occurring1("Routes")
       /\ DOMAIN out.avg_shipping_time = Occurring1("Shipping carriers")
       /\ DOMAIN out.production_location = Occurring2("Location", "Product Type")
       /\ DOMAIN out.costs_by_transport = Occurring2("Transportation modes", "Routes")
       /\ DOMAIN out.metrics_by_product = Occurring1("Product Type")
       /\ DOMAIN out.supplier_metrics = Occurring1("Supplier name")
       /\ DOMAIN out.revenue_demographics = Occurring1("Customer demographics")

\* C9 witness: a two-key table was built from a view in which one row lacks
\* a Location and another row has both keys
C9_Witness ==
    /\ pc = "done"
    /\ \E i, j \in 1..Len(df_filtered) :
          /\ df_filtered[i]["Location"] = NA /\ df_filtered[i]["Product Type"] # NA
          /\ df_filtered[j]["Location"] # NA /\ df_filtered[j]["Product Type"] # NA
          /\ df_filtered[i]["Product Type"] # df_filtered[j]["Product Type"]
    /\ Cardinality(DOMAIN out.production_location) = 1

\* C10 as stated: every normalized radar value is a number in [0, 100], the
\* smallest group mean of a metric at 0 and the largest at 100, also with a
\* single Product Type or equal group means.
C10_AsStated ==
    pc = "done" =>
       \A c \in Range(radar_cols) :
          LET m == out.metrics_by_product
          IN  /\ \A k \in DOMAIN m : /\ ~isna(m[k][c])
                                     /\ FLe(I(0), m[k][c]) /\ FLe(m[k][c], I(100))
              /\ DOMAIN m # {} => /\ \E k \in DOMAIN m : m[k][c] = I(0)
                                  /\ \E k \in DOMAIN m : m[k][c] = I(100)

Revenue(r) == r["Revenue generated"]

\* the positions of the rows of the view that have a revenue
Qualifying == {i \in 1..Len(df_filtered) : ~isna(Revenue(df_filtered[i]))}

\* C5 as stated: the top 10 by revenue are at most 10 rows of the view,
\* descending by revenue with equal revenues in frame order, none with a
\* missing revenue, no row left out having more revenue than one taken, and
\* all the rows with a revenue when these are fewer than 10.
C5_AsStated ==
    pc = "done" =>
       LET t == out.top_products
       IN  /\ Len(t) <= TopN
           /\ \A k \in 1..Len(t) : \E i \in 1..Len(df_filtered) : t[k] = df_filtered[i]
           /\ \A k \in 1..Len(t) : ~isna(Revenue(t[k]))
           /\ \A k \in 1..(Len(t) - 1) :
                 \/ FLt(Revenue(t[k + 1]), Revenue(t[k]))
                 \/ Revenue(t[k + 1]) = Revenue(t[k]) /\ t[k]["index"] < t[k + 1]["index"]
           /\ Len(t) = IF Cardinality(Qualifying) < TopN THEN Cardinality(Qualifying)
                       ELSE TopN
           /\ \A i \in Qualifying :
                 (\A k \in 1..Len(t) : t[k] # df_filtered[i]) =>
                    \A k \in 1..Len(t) : FLe(Revenue(df_filtered[i]), Revenue(t[k]))

\* a column of the view has two values that differ
HasSpread(c) ==
    \E i, j \in 1..Len(df_filtered) :
       /\ ~isna(df_filtered[i][c]) /\ ~isna(df_filtered[j][c])
       /\ df_filtered[i][c] # df_filtered[j][c]

Symmetric(m) ==
    \A i, j \in 1..Len(numeric_cols) : m[<<i, j>>] = m[<<j, i>>]

\* C6 (amended): for a non-empty view the correlation matrix is symmetric,
\* and the diagonal entry of a column is 1.0 when the column holds two
\* different values in the view and NaN otherwise (a single row, a constant
\* column, a column without values).
C6_DiagonalOneOrNaN ==
    (pc = "done" /\ df_filtered # <<>>) =>
       /\ Symmetric(out.correlation_matrix)
       /\ \A i \in 1..Len(numeric_cols) :
             out.correlation_matrix[<<i, i>>]
                = IF HasSpread(numeric_cols[i]) THEN CorrOne ELSE CorrNaN

\* C6 as stated: for any non-empty view the correlation matrix is symmetric
\* and every diagonal entry is 1.0.
C6_AsStated ==
    (pc = "done" /\ df_filtered # <<>>) =>
       /\ Symmetric(out.correlation_matrix)
       /\ \A i \in 1..Len(numeric_cols) : out.correlation_matrix[<<i, i>>] = CorrOne

\* C6 witness: a matrix over a view with a missing revenue in which revenue
\* and lead time vary (diagonal 1.0, their cell defined) and price is
\* constant (diagonal NaN)
C6_Witness ==
    /\ pc = "done"
    /\ \E i \in 1..Len(df_filtered) : isna(Revenue(df_filtered[i]))
    /\ out.correlation_matrix[<<4, 4>>] = CorrOne
    /\ out.correlation_matrix[<<6, 6>>] = CorrOne
    /\ out.correlation_matrix[<<6, 4>>] # CorrNaN
    /\ out.correlation_matrix[<<1, 1>>] = CorrNaN

\* a text that spells a decimal number once '$' and ',' are taken out:
\* digits around at most one '.', with at least one digit
IsDecimalText(s) ==
    LET body == SelectSeq(s, LAMBDA ch : ch \notin {"$", ","})
    IN  /\ \A i \in 1..Len(body) : body[i] \in Digits \cup {"."}
        /\ Cardinality({i \in 1..Len(body) : body[i] = "."}) <= 1
        /\ \E i \in 1..Len(body) : body[i] \in Digits

Loaded == pc \in {"loaded", "filtered", "done"}

\* C7 as stated: a currency cell whose text does not spell a number fails the
\* load, and after a load that succeeded every value of the five currency
\* columns is a plain number (no text has become NaN).
C7_AsStated ==
    /\ (pc # "start" /\ \E i \in 1..Len(file) : \E c \in Range(currency_cols) :
                           file[i][c].kind = "str" /\ ~IsDecimalText(file[i][c].s))
          => pc = "error"
    /\ Loaded => \A i \in 1..Len(df) : \A c \in Range(currency_cols) : isfinite(df[i][c])

\* C8: the Dataset is loaded once and never changed: the load body has run
\* at most once, the store keeps the table that run produced, and at every
\* step of every run after the load (filtering, aggregation, normalization)
\* df is that table, whatever has happened to the file since.
C8_LoadedOnceNeverMutated ==
    /\ loads <= 1
    /\ cache.hit => (loads = 1 /\ cache.value = first)
    /\ Loaded => (cache.hit /\ df = first)

\* C8 witness: a run has filtered and aggregated the table of the only load
\* after the file on disk was changed
C8_Witness ==
    /\ pc = "done"
    /\ loads = 1
    /\ load_data(file).df # first
    /\ df = first /\ Len(df) = 2
    /\ Len(df_filtered) = 1

====
